---- MODULE Spec2Model ----
(***************************************************************************)
(* Health Hawk (src/index.js): the concurrent health-check engine.         *)
(*                                                                         *)
(* State: the p-limit queue and its active count, one record per checkUrl  *)
(* invocation (its promise and the state of the HTTP request it issued),   *)
(* and per run the summary counters, the sorted result list and the        *)
(* exported array.  One action per callback of a request (response,        *)
(* 'error', timeout, end of body) and one for runHealthCheck; the promise  *)
(* reactions that follow a callback (slot release, admission of queued     *)
(* operations, the continuation after Promise.allSettled) run as           *)
(* microtasks before the next I/O event and are part of the same action.   *)
(***************************************************************************)
EXTENDS Integers, Sequences, FiniteSets, TLC

(***************************************************************************)
(* Bounds of the model.                                                    *)
(***************************************************************************)
\* longest endpoint list read from the file
MaxEndpoints == 3
\* largest value of --retries
MaxRetries == 1
\* number of runs (watch-mode ticks) the model follows
MaxRuns == 2
\* pLimit(10) at src/index.js:47, scaled down so that lists longer than the
\* cap are within reach of the check
Concurrency == 2
\* the inputs explored: the requests a run can come to issue,
\* Len(urls) * RequestsOf(retries), are at most this
MaxRequests == 6
\* the same, for the runs followed under fairness
MaxFairRequests == 3
\* the same, for the runs followed with a running clock
MaxTimedRequests == 3
\* the last reading of the clock
MaxNow == 2
\* the requests one run can come to issue, for the runs followed in watch mode
MaxWatchRequests == 2

Runs == 1..MaxRuns

(***************************************************************************)
(* Endpoint strings, as sequences of characters.                           *)
(***************************************************************************)
HttpsA == <<"h","t","t","p","s",":","/","/","a">>
FtpA == <<"f","t","p",":","/","/","a">>
HttpNoColon == <<"h","t","t","p","/","/","a">>
HttpxA == <<"h","t","t","p","x",":","/","/","a">>

\* the non-empty trimmed lines the input file may hold
UrlPool == {HttpsA, FtpA, HttpNoColon, HttpxA}

Letters == {"a","f","h","p","s","t","x"}

\* String.prototype.startsWith
StartsWith(s, p) == Len(s) >= Len(p) /\ SubSeq(s, 1, Len(p)) = p

\* const protocol = url.startsWith('https') ? https : url.startsWith('http') ? http : null
ProtocolOf(url) ==
    IF StartsWith(url, <<"h","t","t","p","s">>) THEN "https"
    ELSE IF StartsWith(url, <<"h","t","t","p">>) THEN "http"
    ELSE "null"

\* index of the first ':' of s, 0 when there is none
ColonAt(s) ==
    IF \E i \in 1..Len(s) : s[i] = ":"
    THEN CHOOSE i \in 1..Len(s) : s[i] = ":" /\ \A j \in 1..(i-1) : s[j] # ":"
    ELSE 0

RECURSIVE SkipSlashes(_)
SkipSlashes(s) ==
    IF s # <<>> /\ Head(s) = "/" THEN SkipSlashes(Tail(s)) ELSE s

\* new URL(url): the parsed protocol ("http:" as <<"h","t","t","p">>), or
\* <<>> when the constructor throws TypeError (no scheme, or a special
\* scheme with an empty host)
NewURL(url) ==
    LET c == ColonAt(url)
        scheme == SubSeq(url, 1, c - 1)
        rest == SkipSlashes(SubSeq(url, c + 1, Len(url)))
    IN  IF c <= 1 THEN <<>>
        ELSE IF \E i \in 1..Len(scheme) : scheme[i] \notin Letters THEN <<>>
        ELSE IF scheme \in {<<"h","t","t","p">>, <<"h","t","t","p","s">>, <<"f","t","p">>}
                /\ rest = <<>> THEN <<>>
        ELSE scheme

\* protocol.request(parsedUrl, ...) throws ERR_INVALID_PROTOCOL when the
\* parsed protocol is not the module's own; new URL throws before that
RequestThrows(url) ==
    \/ NewURL(url) = <<>>
    \/ ProtocolOf(url) = "https" /\ NewURL(url) # <<"h","t","t","p","s">>
    \/ ProtocolOf(url) = "http" /\ NewURL(url) # <<"h","t","t","p">>

(***************************************************************************)
(* Outcomes, with the fields checkUrl gives them.                          *)
(***************************************************************************)
\* the status codes a server answers with in the model: the edges of [200, 300)
StatusCodes == {200, 300}

\* IsSuccessStatus that takes 300 for a success
IsSuccessStatusInclusive(statusCode) == statusCode >= 200 /\ statusCode <= 300

IsSuccessStatus(statusCode) == statusCode >= 200 /\ statusCode < 300

StatusOutcome(url, status, duration, success) ==
    [url |-> url, status |-> status, duration |-> duration, success |-> success]

ErrorOutcome(url, error, duration) ==
    [url |-> url, error |-> error, duration |-> duration, success |-> FALSE]

Fulfilled(value) == [status |-> "fulfilled", value |-> value]
Rejected == [status |-> "rejected", reason |-> "TypeError"]

(***************************************************************************)
(* results.sort(comparator): V8's TimSort.  An array shorter than 64       *)
(* elements is one run: the leading run is counted (and reversed when      *)
(* strictly descending), the rest is inserted by binary insertion.         *)
(***************************************************************************)
BoolNum(b) == IF b THEN 1 ELSE 0

\* (a, b) => { if (a.status !== 'fulfilled' || b.status !== 'fulfilled') return 0;
\*             return (b.value.success === true) - (a.value.success === true); }
Comparator(a, b) ==
    IF a.status # "fulfilled" \/ b.status # "fulfilled" THEN 0
    ELSE BoolNum(b.value.success = TRUE) - BoolNum(a.value.success = TRUE)

RECURSIVE RunEnd(_, _, _)
\* last index of the run that starts at 1, given that it reaches idx - 1
RunEnd(arr, idx, isDescending) ==
    IF idx > Len(arr) THEN Len(arr)
    ELSE LET order == Comparator(arr[idx], arr[idx - 1])
         IN  IF isDescending
             THEN IF order >= 0 THEN idx - 1 ELSE RunEnd(arr, idx + 1, isDescending)
             ELSE IF order < 0 THEN idx - 1 ELSE RunEnd(arr, idx + 1, isDescending)

Reverse(s) == [i \in 1..Len(s) |-> s[Len(s) + 1 - i]]

\* CountAndMakeRun over the whole array: <<run length, array>>
CountAndMakeRun(arr) ==
    IF Len(arr) < 2 THEN <<Len(arr), arr>>
    ELSE LET isDescending == Comparator(arr[2], arr[1]) < 0
             n == RunEnd(arr, 3, isDescending)
         IN  IF isDescending
             THEN <<n, Reverse(SubSeq(arr, 1, n)) \o SubSeq(arr, n + 1, Len(arr))>>
             ELSE <<n, arr>>

RECURSIVE BinarySearch(_, _, _, _)
\* the insertion point of pivot in arr[left..right-1] (1-based, right exclusive)
BinarySearch(arr, pivot, left, right) ==
    IF left >= right THEN left
    ELSE LET mid == left + ((right - left) \div 2)
         IN  IF Comparator(pivot, arr[mid]) < 0
             THEN BinarySearch(arr, pivot, left, mid)
             ELSE BinarySearch(arr, pivot, mid + 1, right)

RECURSIVE BinaryInsertionSort(_, _)
\* arr[1..start-1] is sorted; insert arr[start..]
BinaryInsertionSort(arr, start) ==
    IF start > Len(arr) THEN arr
    ELSE LET pivot == arr[start]
             left == BinarySearch(arr, pivot, 1, start)
             moved == SubSeq(arr, 1, left - 1) \o <<pivot>>
                      \o SubSeq(arr, left, start - 1)
                      \o SubSeq(arr, start + 1, Len(arr))
         IN  CHOOSE out \in {BinaryInsertionSort(next, start + 1) : next \in {moved}} : TRUE

Sort(arr) ==
    IF Len(arr) < 2 THEN arr
    ELSE CHOOSE out \in {BinaryInsertionSort(run[2], run[1] + 1) :
                            run \in {CountAndMakeRun(arr)}} : TRUE

(***************************************************************************)
(* The program state.                                                      *)
(***************************************************************************)
VARIABLES
    urls,          \* the endpoint list read from the file
    retries,       \* --retries
    jsonFile,      \* TRUE when --json <file> was given
    now,           \* Date.now()
    phase,         \* per run: "Idle", "Running", "Completed"
    queue,         \* p-limit's queue of operations <<run, index>>
    activeCount,   \* p-limit's activeCount
    admits,        \* per operation, how often the limiter has started it
    calls,         \* one record per checkUrl invocation, keyed <<run, index, path>>
    totalCount,    \* per run
    healthyCount,  \* per run
    results,       \* per run: the sorted Promise.allSettled array
    written,       \* per run: the cleanResults array serialised to the file, <<>> when none
    settleOrder    \* per run: the endpoint indexes in the order their promises settled

vars == <<urls, retries, jsonFile, now, phase, queue, activeCount, admits, calls,
          totalCount, healthyCount, results, written, settleOrder>>

Indexes == 1..Len(urls)
Ops == Runs \X Indexes

\* the key of the checkUrl call the limiter makes for an operation
Root(op) == <<op[1], op[2], <<>>>>
\* the key of the call made by callback cb ("R", "E" or "T") of call k
Child(k, cb) == <<k[1], k[2], Append(k[3], cb)>>
OpOf(k) == <<k[1], k[2]>>

Pending == [kind |-> "pending"]
Value(v) == [kind |-> "value", value |-> v]
Thrown == [kind |-> "rejected"]
Link(k) == [kind |-> "link", to |-> k]

\* resolve(x) on a promise: only the first call has an effect
Resolve(promise, x) == IF promise.kind = "pending" THEN x ELSE promise

RECURSIVE Final(_, _)
\* the state a promise has reached, following the promises it was resolved with
Final(c, k) ==
    IF c[k].promise.kind = "link" THEN Final(c, c[k].promise.to) ELSE c[k].promise

Started(c, op) == Root(op) \in DOMAIN c
\* Settled that takes a started promise for a settled one
SettledOrStarted(c, op) == Started(c, op)

Settled(c, op) == Started(c, op) /\ Final(c, Root(op)).kind \in {"value", "rejected"}

\* the entry Promise.allSettled holds for a settled operation
SettledEntry(c, op) ==
    IF Final(c, Root(op)).kind = "value"
    THEN Fulfilled(Final(c, Root(op)).value)
    ELSE Rejected

\* CheckUrl that measures a retry from the start of the first attempt
CheckUrlCumulative(c, k, retriesLeft) ==
    LET url == urls[k[2]]
        startTime == IF k[3] = <<>> THEN now ELSE c[Root(OpOf(k))].startTime
        call == [retriesLeft |-> retriesLeft, startTime |-> startTime]
    IN  IF ProtocolOf(url) = "null"
        THEN c @@ (k :> (call @@ [req |-> "none",
                   promise |-> Value(ErrorOutcome(url, "Invalid URL protocol", now - startTime))]))
        ELSE IF RequestThrows(url)
        THEN c @@ (k :> (call @@ [req |-> "none", promise |-> Thrown]))
        ELSE c @@ (k :> (call @@ [req |-> "sent", promise |-> Pending]))

\* checkUrl(url, retriesLeft), up to req.end(): the call record under key k
CheckUrl(c, k, retriesLeft) ==
    LET url == urls[k[2]]
        startTime == now
        call == [retriesLeft |-> retriesLeft, startTime |-> startTime]
    IN  IF ProtocolOf(url) = "null"
        THEN c @@ (k :> (call @@ [req |-> "none",
                   promise |-> Value(ErrorOutcome(url, "Invalid URL protocol", now - startTime))]))
        ELSE IF RequestThrows(url)
        THEN c @@ (k :> (call @@ [req |-> "none", promise |-> Thrown]))
        ELSE c @@ (k :> (call @@ [req |-> "sent", promise |-> Pending]))

\* Admit that keeps the slot of an operation settled without I/O
AdmitHolding(w) ==
    LET op == Head(w.queue)
        c == CheckUrl(w.calls, Root(op), retries)
    IN  [queue |-> Tail(w.queue),
         activeCount |-> w.activeCount + 1,
         calls |-> c,
         admits |-> [w.admits EXCEPT ![op] = @ + 1]]

\* p-limit's run(): the head of the queue is started; an operation whose
\* promise settles without I/O gives its slot back at once
Admit(w) ==
    LET op == Head(w.queue)
        c == CheckUrl(w.calls, Root(op), retries)
    IN  [queue |-> Tail(w.queue),
         activeCount |-> IF Settled(c, op) THEN w.activeCount ELSE w.activeCount + 1,
         calls |-> c,
         admits |-> [w.admits EXCEPT ![op] = @ + 1]]

RECURSIVE DrainPerRun(_)
\* Drain with a limiter of its own for every run
DrainPerRun(w) ==
    IF \/ w.queue = <<>>
       \/ Cardinality({op \in Ops : /\ op[1] = Head(w.queue)[1]
                                   /\ Started(w.calls, op)
                                   /\ ~Settled(w.calls, op)}) >= Concurrency
    THEN w
    ELSE CHOOSE out \in {DrainPerRun(next) : next \in {Admit(w)}} : TRUE

RECURSIVE Drain(_)
\* p-limit: operations are started from the head of the queue while a slot
\* is free (the singleton set binds the next state as a value)
Drain(w) ==
    IF w.queue = <<>> \/ w.activeCount >= Concurrency THEN w
    ELSE CHOOSE out \in {Drain(next) : next \in {Admit(w)}} : TRUE

RECURSIVE CountHealthyAnyFulfilled(_)
\* CountHealthy without the test of success
CountHealthyAnyFulfilled(res) ==
    IF res = <<>> THEN 0
    ELSE (IF Head(res).status = "fulfilled" THEN 1 ELSE 0)
         + CountHealthyAnyFulfilled(Tail(res))

RECURSIVE CountHealthy(_)
\* results.forEach(...): healthyCount++ for a fulfilled result with success
CountHealthy(res) ==
    IF res = <<>> THEN 0
    ELSE (IF Head(res).status = "fulfilled" /\ Head(res).value.success THEN 1 ELSE 0)
         + CountHealthy(Tail(res))

\* CleanResults that leaves a rejected result out
CleanResultsOmitting(res) ==
    LET kept == SelectSeq(res, LAMBDA e : e.status = "fulfilled")
    IN  [i \in 1..Len(kept) |-> kept[i].value]

\* results.map(r => (r.status === 'fulfilled' ? r.value : { error: "unknown" }))
CleanResults(res) ==
    [i \in 1..Len(res) |->
        IF res[i].status = "fulfilled" THEN res[i].value ELSE [error |-> "unknown"]]

\* the order of settlement of run r once the call records are c: in one
\* step the operation whose callback ran settles first, then the operations
\* the limiter starts that settle without I/O, in queue order
SettleOrderAfter(c, r) ==
    LET fresh(i) == ~Settled(calls, <<r, i>>) /\ Settled(c, <<r, i>>)
        all == [i \in Indexes |-> i]
    IN  settleOrder[r]
        \o SelectSeq(all, LAMBDA i : fresh(i) /\ Started(calls, <<r, i>>))
        \o SelectSeq(all, LAMBDA i : fresh(i) /\ ~Started(calls, <<r, i>>))

\* AllSettled that keeps the fulfilled promises only
AllSettledFulfilledOnly(c, r) ==
    SelectSeq([i \in Indexes |-> SettledEntry(c, <<r, i>>)],
              LAMBDA e : e.status = "fulfilled")

\* AllSettled that collects the results as the promises settle
AllSettledAsCompleted(c, r) ==
    LET order == SettleOrderAfter(c, r)
    IN  [j \in 1..Len(order) |-> SettledEntry(c, <<r, order[j]>>)]

\* the array Promise.allSettled(promises) resolves with, in input order
AllSettled(c, r) == [i \in Indexes |-> SettledEntry(c, <<r, i>>)]

\* the state after the microtasks that follow a callback: the limiter's
\* state w is stored, and a run whose promises have all settled continues
\* after its await: sort, count, summary, export
Commit(w, ph) ==
    \E done \in {{r \in Runs : /\ ph[r] = "Running"
                                /\ \A i \in Indexes : Settled(w.calls, <<r, i>>)}} :
    \E sorted \in {[r \in done |-> Sort(AllSettled(w.calls, r))]} :
        /\ queue' = w.queue
        /\ activeCount' = w.activeCount
        /\ calls' = w.calls
        /\ admits' = w.admits
        /\ phase' = [r \in Runs |-> IF r \in done THEN "Completed" ELSE ph[r]]
        /\ results' = [r \in Runs |-> IF r \in done THEN sorted[r] ELSE results[r]]
        /\ healthyCount' = [r \in Runs |->
                IF r \in done THEN CountHealthy(sorted[r]) ELSE healthyCount[r]]
        /\ written' = [r \in Runs |->
                IF r \in done /\ jsonFile THEN CleanResults(sorted[r]) ELSE written[r]]
        /\ settleOrder' = [r \in Runs |-> SettleOrderAfter(w.calls, r)]

World == [queue |-> queue, activeCount |-> activeCount, calls |-> calls, admits |-> admits]

\* AfterCallback that never gives the slot back
AfterCallbackLeak(c, op) ==
    \E w \in {IF ~Settled(calls, op) /\ Settled(c, op)
              THEN Drain([World EXCEPT !.calls = c])
              ELSE [World EXCEPT !.calls = c]} :
        Commit(w, phase)

\* a callback of operation op has left the call records c: when the
\* operation's promise has settled by it, p-limit's next() frees the slot
AfterCallback(c, op) ==
    \E w \in {IF ~Settled(calls, op) /\ Settled(c, op)
              THEN Drain([World EXCEPT !.calls = c, !.activeCount = @ - 1])
              ELSE [World EXCEPT !.calls = c]} :
        Commit(w, phase)

(***************************************************************************)
(* Actions.                                                                *)
(***************************************************************************)
\* the requests one endpoint can come to issue with a budget of r: two of
\* the three callbacks can fire on one request, each starting a further one
RequestsOf(r) == 2^(r + 1) - 1

\* the state when the module has read its flags and the file
InitWithin(maxRequests) ==
    /\ urls \in UNION {[1..n -> UrlPool] : n \in 1..MaxEndpoints}
    /\ retries \in 0..MaxRetries
    /\ Len(urls) * RequestsOf(retries) <= maxRequests
    /\ jsonFile \in BOOLEAN
    /\ now = 0
    /\ phase = [r \in Runs |-> "Idle"]
    /\ queue = <<>>
    /\ activeCount = 0
    /\ admits = [op \in Ops |-> 0]
    /\ calls = <<>>
    /\ totalCount = [r \in Runs |-> 0]
    /\ healthyCount = [r \in Runs |-> 0]
    /\ results = [r \in Runs |-> <<>>]
    /\ written = [r \in Runs |-> <<>>]
    /\ settleOrder = [r \in Runs |-> <<>>]

Init == InitWithin(MaxRequests)

FairInit == InitWithin(MaxFairRequests)

\* runHealthCheck(), up to its await: every url is handed to the limiter
RunHealthCheck(r) ==
    /\ phase[r] = "Idle"
    /\ totalCount' = [totalCount EXCEPT ![r] = Len(urls)]
    /\ \E w \in {Drain([World EXCEPT !.queue = @ \o [i \in Indexes |-> <<r, i>>]])} :
          Commit(w, [phase EXCEPT ![r] = "Running"])
    /\ UNCHANGED <<urls, retries, jsonFile, now>>

\* the response callback of protocol.request
OnResponse(k, statusCode) ==
    /\ calls[k].req = "sent"
    /\ LET call == calls[k]
           url == urls[k[2]]
           duration == now - call.startTime
           heard == [call EXCEPT !.req = "responded"]
           c == IF IsSuccessStatus(statusCode)
                THEN [calls EXCEPT ![k] = [heard EXCEPT !.promise =
                        Resolve(@, Value(StatusOutcome(url, statusCode, duration, TRUE)))]]
                ELSE IF call.retriesLeft > 0
                THEN [CheckUrl(calls, Child(k, "R"), call.retriesLeft - 1) EXCEPT ![k] =
                        [heard EXCEPT !.promise = Resolve(@, Link(Child(k, "R")))]]
                ELSE [calls EXCEPT ![k] = [heard EXCEPT !.promise =
                        Resolve(@, Value(StatusOutcome(url, statusCode, duration, FALSE)))]]
       IN  \E after \in {c} : AfterCallback(after, OpOf(k))
    /\ UNCHANGED <<urls, retries, jsonFile, now, totalCount>>

\* OnError that retries only while retriesLeft > 1
OnErrorOffByOne(k) ==
    /\ calls[k].req \in {"sent", "responded", "destroyed"}
    /\ LET call == calls[k]
           url == urls[k[2]]
           duration == now - call.startTime
           message == IF call.req = "destroyed" THEN "socket hang up" ELSE "ECONNRESET"
           heard == [call EXCEPT !.req = "closed"]
           c == IF call.retriesLeft > 1
                THEN [CheckUrl(calls, Child(k, "E"), call.retriesLeft - 1) EXCEPT ![k] =
                        [heard EXCEPT !.promise = Resolve(@, Link(Child(k, "E")))]]
                ELSE [calls EXCEPT ![k] = [heard EXCEPT !.promise =
                        Resolve(@, Value(ErrorOutcome(url, message, duration)))]]
       IN  \E after \in {c} : AfterCallback(after, OpOf(k))
    /\ UNCHANGED <<urls, retries, jsonFile, now, totalCount>>

\* req.on('error', ...): a transport error, or the 'socket hang up' that
\* follows req.destroy() on a request without a response
OnError(k) ==
    /\ calls[k].req \in {"sent", "responded", "destroyed"}
    /\ LET call == calls[k]
           url == urls[k[2]]
           duration == now - call.startTime
           message == IF call.req = "destroyed" THEN "socket hang up" ELSE "ECONNRESET"
           heard == [call EXCEPT !.req = "closed"]
           c == IF call.retriesLeft > 0
                THEN [CheckUrl(calls, Child(k, "E"), call.retriesLeft - 1) EXCEPT ![k] =
                        [heard EXCEPT !.promise = Resolve(@, Link(Child(k, "E")))]]
                ELSE [calls EXCEPT ![k] = [heard EXCEPT !.promise =
                        Resolve(@, Value(ErrorOutcome(url, message, duration)))]]
       IN  \E after \in {c} : AfterCallback(after, OpOf(k))
    /\ UNCHANGED <<urls, retries, jsonFile, now, totalCount>>

\* req.setTimeout(timeout, ...): the socket stayed idle, before the response
\* or while its body is read
OnTimeout(k) ==
    /\ calls[k].req \in {"sent", "responded"}
    /\ LET call == calls[k]
           url == urls[k[2]]
           duration == now - call.startTime
           heard == [call EXCEPT !.req = IF call.req = "sent" THEN "destroyed" ELSE "closed"]
           c == IF call.retriesLeft > 0
                THEN [CheckUrl(calls, Child(k, "T"), call.retriesLeft - 1) EXCEPT ![k] =
                        [heard EXCEPT !.promise = Resolve(@, Link(Child(k, "T")))]]
                ELSE [calls EXCEPT ![k] = [heard EXCEPT !.promise =
                        Resolve(@, Value(ErrorOutcome(url, "Timeout", duration)))]]
       IN  \E after \in {c} : AfterCallback(after, OpOf(k))
    /\ UNCHANGED <<urls, retries, jsonFile, now, totalCount>>

\* res.resume(): the body has been drained and the request is over
OnEnd(k) ==
    /\ calls[k].req = "responded"
    /\ calls' = [calls EXCEPT ![k].req = "closed"]
    /\ UNCHANGED <<urls, retries, jsonFile, now, phase, queue, activeCount, admits,
                   totalCount, healthyCount, results, written, settleOrder>>

Next ==
    \/ RunHealthCheck(1)
    \/ \E k \in DOMAIN calls : \E statusCode \in StatusCodes : OnResponse(k, statusCode)
    \/ \E k \in DOMAIN calls : OnError(k)
    \/ \E k \in DOMAIN calls : OnTimeout(k)
    \/ \E k \in DOMAIN calls : OnEnd(k)

Spec == Init /\ [][Next]_vars

\* the event loop delivers a pending event; every request has one pending
\* until it is closed
FairSpec == FairInit /\ [][Next]_vars /\ WF_vars(Next)

TimedInit == InitWithin(MaxTimedRequests)

\* time passes between two events: Date.now() reads one more
ClockTick ==
    /\ now < MaxNow
    /\ now' = now + 1
    /\ UNCHANGED <<urls, retries, jsonFile, phase, queue, activeCount, admits, calls,
                   totalCount, healthyCount, results, written, settleOrder>>

TimedNext ==
    \/ Next
    \/ ClockTick

\* the program with its clock running
TimedSpec == TimedInit /\ [][TimedNext]_vars

\* the endpoints for which checkUrl issues a request
Requesting == {i \in Indexes : ProtocolOf(urls[i]) # "null" /\ ~RequestThrows(urls[i])}

WatchInit ==
    /\ InitWithin(MaxRequests)
    /\ Cardinality(Requesting) * RequestsOf(retries) <= MaxWatchRequests

\* OnInterval that skips the tick while the previous run is still running
OnIntervalSkipping ==
    \E r \in Runs \ {1} : phase[r - 1] = "Completed" /\ RunHealthCheck(r)

\* setInterval(runHealthCheck, 60_000): the timer fires and the next run
\* starts, whatever the earlier runs are doing
OnInterval ==
    \E r \in Runs \ {1} : phase[r - 1] # "Idle" /\ RunHealthCheck(r)

WatchNext ==
    \/ Next
    \/ OnInterval

\* the program started with --watch
WatchSpec == WatchInit /\ [][WatchNext]_vars

(***************************************************************************)
(* Properties.                                                             *)
(***************************************************************************)
\* the HTTP requests issued so far for an operation
Requests(op) == {k \in DOMAIN calls : OpOf(k) = op /\ calls[k].req # "none"}

\* the requests issued and neither finished nor destroyed
InFlight == {k \in DOMAIN calls : calls[k].req \in {"sent", "responded"}}

IsSuccess(promise) == promise.kind = "value" /\ promise.value.success
IsFailure(promise) == promise.kind = "value" /\ ~promise.value.success

RejectedOps(r) == {i \in Indexes : Settled(calls, <<r, i>>)
                                   /\ Final(calls, <<r, i, <<>>>>).kind = "rejected"}
HealthyOps(r) == {i \in Indexes : Settled(calls, <<r, i>>)
                                  /\ IsSuccess(Final(calls, <<r, i, <<>>>>))}

\* C1: when a run has completed, totalCount is the number of endpoints and
\* healthyCount is the number of operations that settled with success = true,
\* whatever mix of successes, failures and rejections the run saw.
C1_Counts ==
    \A r \in Runs : phase[r] = "Completed" =>
        /\ totalCount[r] = Len(urls)
        /\ healthyCount[r] = Cardinality(HealthyOps(r))

C1_Witness ==
    /\ phase[1] = "Completed"
    /\ healthyCount[1] >= 1
    /\ RejectedOps(1) # {}
    /\ \E i \in Indexes : IsFailure(Final(calls, <<1, i, <<>>>>))

\* C2: with a retry budget of r, at most r + 1 HTTP requests are issued for
\* one endpoint in one run.
C2_AtMostRPlusOne ==
    \A op \in Ops : Cardinality(Requests(op)) <= retries + 1

\* C3: once an attempt of an endpoint has received a 2xx response, no further
\* request is issued for that endpoint in that run.
C3_NoRequestAfter2xx ==
    [][\A op \in Ops :
         (\E k \in Requests(op) : IsSuccess(calls[k].promise))
            => Requests(op)' = Requests(op)]_vars

\* C4: in every reachable state the number of requests in flight is at most
\* the concurrency cap.
C4_InFlightWithinCap == Cardinality(InFlight) <= Concurrency

\* C5 as stated: every failed attempt, an 'Invalid URL protocol' one
\* included, becomes final only when retriesLeft is 0.
C5_EveryFailureRetried ==
    \A k \in DOMAIN calls : IsFailure(calls[k].promise) => calls[k].retriesLeft = 0

\* C5, amended: a transport error, a non-2xx status and a timeout are each
\* followed by another attempt with the budget decremented while
\* retriesLeft > 0 and become final only when retriesLeft is 0; an 'Invalid
\* URL protocol' failure is final at once, whatever retriesLeft is, and is
\* never retried.
C5_RetryByClass ==
    \A k \in DOMAIN calls :
        LET call == calls[k]
            url == urls[k[2]]
        IN  /\ IsFailure(call.promise) /\ call.req # "none" => call.retriesLeft = 0
            /\ call.req \in {"responded", "destroyed", "closed"}
                 /\ call.retriesLeft > 0 /\ ~IsSuccess(call.promise)
               => /\ call.promise.kind = "link"
                  /\ call.promise.to \in DOMAIN calls
                  /\ calls[call.promise.to].retriesLeft = call.retriesLeft - 1
                  /\ calls[call.promise.to].req # "none"
            /\ ProtocolOf(url) = "null"
               => /\ k = Root(OpOf(k))
                  /\ call.req = "none"
                  /\ call.retriesLeft = retries
                  /\ call.promise = Value(ErrorOutcome(url, "Invalid URL protocol", 0))

C5_Witness ==
    /\ retries > 0
    /\ \E k \in DOMAIN calls : ProtocolOf(urls[k[2]]) = "null" /\ IsFailure(calls[k].promise)
    /\ \E k \in DOMAIN calls :
          /\ calls[k].req = "closed"
          /\ Child(k, "T") \in DOMAIN calls
          /\ Child(k, "E") \in DOMAIN calls
    /\ \E k \in DOMAIN calls :
          /\ calls[k].retriesLeft = 0
          /\ IsFailure(calls[k].promise)
          /\ "status" \in DOMAIN calls[k].promise.value

\* C6: the promise of every operation is fulfilled with an Outcome, never
\* rejected.
C6_NeverRejects ==
    \A op \in Ops : Started(calls, op) => Final(calls, Root(op)).kind # "rejected"

\* C7: after the sort no result with success = false stands before a result
\* with success = true.
C7_SuccessFirst ==
    \A r \in Runs : phase[r] = "Completed" =>
        ~ \E i, j \in 1..Len(results[r]) :
            /\ i < j
            /\ results[r][i].status = "fulfilled" /\ ~results[r][i].value.success
            /\ results[r][j].status = "fulfilled" /\ results[r][j].value.success

\* C8: when every pending event is eventually delivered, the run reaches
\* Completed; every endpoint is started by the limiter at most once, and
\* exactly once by the time the run has completed; the limiter never rests
\* with a queued operation and a free slot.
C8_Liveness ==
    /\ <>(phase[1] = "Completed")
    /\ [](\A op \in Ops : admits[op] <= 1)
    /\ [](phase[1] = "Completed" => \A i \in Indexes : admits[<<1, i>>] = 1)
    /\ [](~(queue # <<>> /\ activeCount < Concurrency))

C8_Witness ==
    /\ phase[1] = "Completed"
    /\ Len(urls) > Concurrency
    /\ \A i \in Indexes : Requests(<<1, i>>) # {} /\ admits[<<1, i>>] = 1

\* C9: a rejected operation does not abort the run: the run still completes,
\* with totalCount = N, with the final outcome of every other endpoint among
\* its results, and with the rejected endpoint not counted as healthy.
C9_RejectionContained ==
    /\ (RejectedOps(1) # {}) ~> (phase[1] = "Completed")
    /\ [](phase[1] = "Completed" /\ RejectedOps(1) # {} =>
            /\ totalCount[1] = Len(urls)
            /\ Len(results[1]) = Len(urls)
            /\ \A i \in Indexes \ RejectedOps(1) :
                  \E j \in 1..Len(results[1]) :
                      results[1][j] = Fulfilled(Final(calls, <<1, i, <<>>>>).value)
            /\ Cardinality({j \in 1..Len(results[1]) : results[1][j] = Rejected})
                  = Cardinality(RejectedOps(1))
            /\ healthyCount[1] <= Len(urls) - Cardinality(RejectedOps(1)))

C9_Witness ==
    /\ phase[1] = "Completed"
    /\ RejectedOps(1) # {}
    /\ \E i \in Indexes : Requests(<<1, i>>) # {} /\ IsSuccess(Final(calls, <<1, i, <<>>>>))
    /\ \E i \in Indexes : Requests(<<1, i>>) # {} /\ IsFailure(Final(calls, <<1, i, <<>>>>))

\* C10: when export is requested, as many records are written as totalCount,
\* and a rejected result is written as an error record in its place.
C10_ExportCount ==
    \A r \in Runs : phase[r] = "Completed" /\ jsonFile =>
        /\ Len(written[r]) = totalCount[r]
        /\ \A i \in 1..Len(results[r]) :
              results[r][i].status = "rejected" => written[r][i] = [error |-> "unknown"]

C10_Witness ==
    /\ phase[1] = "Completed"
    /\ jsonFile
    /\ Len(written[1]) = 3
    /\ \E i \in 1..Len(results[1]) : results[1][i].status = "rejected"
    /\ \E i \in 1..Len(results[1]) : results[1][i].status = "fulfilled"

(***************************************************************************)
(* The export: JSON.stringify(cleanResults, null, 2) and its reading back. *)
(***************************************************************************)
\* the property names of the records, in the order the code writes them
KeyOrder == <<"url", "status", "error", "duration", "success">>

\* JSON.stringify of one object: its own properties as name/value members
JSONMembers(obj) ==
    LET names == SelectSeq(KeyOrder, LAMBDA name : name \in DOMAIN obj)
    IN  [i \in 1..Len(names) |-> <<names[i], obj[names[i]]>>]

\* JSON.stringify of the array
JSONStringify(arr) == [i \in 1..Len(arr) |-> JSONMembers(arr[i])]

\* JSON.parse of one object text: a property for every member
JSONObject(members) ==
    [name \in {members[i][1] : i \in 1..Len(members)} |->
        (CHOOSE m \in {members[i] : i \in 1..Len(members)} : m[1] = name)[2]]

\* JSON.parse of the file
JSONParse(text) == [i \in 1..Len(text) |-> JSONObject(text[i])]

\* the records a reader of the file of run r gets
ReadBack(r) == JSONParse(JSONStringify(written[r]))

\* the success flag a record read back carries
ReadFlag(record) ==
    IF "success" \in DOMAIN record
    THEN (IF record.success THEN "true" ELSE "false")
    ELSE "undefined"

\* the success flag the run gives a result: healthy, or a failure line
MemoryFlag(result) ==
    IF result.status = "fulfilled" /\ result.value.success THEN "true" ELSE "false"

\* C11: the records read back from the export carry, in order, the success
\* flags of the in-memory results of the run, the placeholder of a rejected
\* result included.
C11_FlagsRoundTrip ==
    \A r \in Runs : phase[r] = "Completed" /\ jsonFile =>
        /\ Len(ReadBack(r)) = Len(results[r])
        /\ \A i \in 1..Len(results[r]) :
              ReadFlag(ReadBack(r)[i]) = MemoryFlag(results[r][i])

\* the outcome the timeout callback resolves with when no retry is left
IsTimeoutOutcome(promise) ==
    /\ promise.kind = "value"
    /\ ~promise.value.success
    /\ "error" \in DOMAIN promise.value
    /\ promise.value.error = "Timeout"
    /\ "status" \notin DOMAIN promise.value

\* the requests with retriesLeft = 0 that were destroyed by the timeout
\* callback before any response, their 'error' event still to come
TimedOutLast == {k \in DOMAIN calls : calls[k].retriesLeft = 0 /\ calls[k].req = "destroyed"}

\* C12: when the timeout callback has fired before any response on an
\* attempt with retriesLeft = 0, the final outcome of the endpoint is the
\* 'Timeout' failure without a status, and the next event, the 'error' of
\* the destroyed request included, leaves that outcome unchanged.
C12_TimeoutIsFinal ==
    [][\A k \in TimedOutLast :
         /\ IsTimeoutOutcome(Final(calls, Root(OpOf(k))))
         /\ Final(calls', Root(OpOf(k))) = Final(calls, Root(OpOf(k)))]_vars

RECURSIVE ChainEnd(_, _)
\* the checkUrl call whose resolution the promise of call k takes
ChainEnd(c, k) ==
    IF c[k].promise.kind = "link" THEN ChainEnd(c, c[k].promise.to) ELSE k

\* C13: every checkUrl call takes its own start time when it is made, and
\* when an endpoint's promise settles with an outcome, the duration of that
\* outcome is the time from the start of the attempt that produced it to its
\* classification, not the time since the first attempt.
C13_LastAttemptOnly ==
    [][/\ \A k \in DOMAIN calls' \ DOMAIN calls : calls'[k].startTime = now
       /\ \A op \in Ops :
            /\ ~Settled(calls, op)
            /\ Settled(calls', op)
            /\ Final(calls', Root(op)).kind = "value"
            => Final(calls', Root(op)).value.duration
                 = now - calls'[ChainEnd(calls', Root(op))].startTime]_vars

C13_Witness ==
    \E op \in Ops :
        /\ Settled(calls, op)
        /\ Final(calls, Root(op)).kind = "value"
        /\ ChainEnd(calls, Root(op)) # Root(op)
        /\ calls[ChainEnd(calls, Root(op))].startTime > calls[Root(op)].startTime
        /\ Final(calls, Root(op)).value.duration >= 1
        /\ Final(calls, Root(op)).value.duration < now - calls[Root(op)].startTime

\* the operations that hold a limiter slot: started and not yet settled
Holding == {op \in Ops : Started(calls, op) /\ ~Settled(calls, op)}

\* C14: the occupied slots are exactly the started operations that have not
\* settled, whether they settled by success, failure or rejection; a
\* Completed run holds no slot, and when no run is Running the count of
\* occupied slots is 0.
C14_SlotsReleased ==
    /\ activeCount = Cardinality(Holding)
    /\ \A r \in Runs : phase[r] = "Completed" => \A op \in Holding : op[1] # r
    /\ (\A r \in Runs : phase[r] # "Running") => activeCount = 0

C14_Witness ==
    /\ \A r \in Runs : phase[r] = "Completed"
    /\ activeCount = 0
    /\ RejectedOps(1) # {}
    /\ HealthyOps(1) # {}
    /\ \E i \in Indexes : IsFailure(Final(calls, <<2, i, <<>>>>))

\* the flag of a settled result: "true", "false", or "rejected"
FlagOf(result) ==
    IF result.status # "fulfilled" THEN "rejected"
    ELSE IF result.value.success THEN "true" ELSE "false"

\* the final flags of run r, by input position
FinalFlags(r) == [i \in Indexes |-> FlagOf(SettledEntry(calls, <<r, i>>))]

\* the lines a result list displays: the endpoint and its flag
Display(res) ==
    [j \in 1..Len(res) |->
        <<IF res[j].status = "fulfilled" THEN res[j].value.url ELSE <<>>, FlagOf(res[j])>>]

\* C15: two completed runs over the endpoint list whose final flags agree
\* position by position display the same ordered list, whatever the order
\* in which their checks completed.
C15_OrderByInputAndFlags ==
    \A r, q \in Runs :
        /\ phase[r] = "Completed"
        /\ phase[q] = "Completed"
        /\ FinalFlags(r) = FinalFlags(q)
        => Display(results[r]) = Display(results[q])

C15_Witness ==
    /\ phase[1] = "Completed"
    /\ phase[2] = "Completed"
    /\ FinalFlags(1) = FinalFlags(2)
    /\ settleOrder[1] # settleOrder[2]
    /\ Display(results[1]) = Display(results[2])
    /\ Display(results[1]) # Display([i \in Indexes |-> SettledEntry(calls, <<1, i>>)])
    /\ \E i, j \in Indexes : urls[i] # urls[j]

\* the outcomes checkUrl has resolved a promise with so far
Outcomes == {calls[k].promise.value : k \in {c \in DOMAIN calls : calls[c].promise.kind = "value"}}

HasStatus(outcome) == "status" \in DOMAIN outcome
HasError(outcome) == "error" \in DOMAIN outcome

\* C16: every outcome checkUrl resolves with has exactly one of status and
\* error; a success has a status in [200, 300) and no error, a failure has a
\* status outside [200, 300) and no error, or an error and no status.
C16_StatusXorError ==
    \A o \in Outcomes :
        /\ HasStatus(o) # HasError(o)
        /\ o.success => HasStatus(o) /\ o.status >= 200 /\ o.status < 300
        /\ ~o.success /\ HasStatus(o) => o.status < 200 \/ o.status >= 300

C16_Witness ==
    /\ \E o \in Outcomes : o.success /\ HasStatus(o)
    /\ \E o \in Outcomes : ~o.success /\ HasStatus(o)
    /\ \E o \in Outcomes : ~o.success /\ HasError(o) /\ o.error = "Timeout"

\* the check promises of run r that are still pending, or not yet made
PendingChecks(r) ==
    {i \in Indexes : \/ <<r, i, <<>>>> \notin DOMAIN calls
                     \/ Final(calls, <<r, i, <<>>>>).kind = "pending"}

\* C17: when the export of a run has been written, every check promise of
\* that run has settled and the summary of the run has been computed; the
\* export is never there while a check of the run is pending.
C17_ExportAfterSettle ==
    \A r \in Runs : written[r] # <<>> =>
        /\ PendingChecks(r) = {}
        /\ phase[r] = "Completed"
        /\ totalCount[r] = Len(urls)
        /\ healthyCount[r] = Cardinality({i \in Indexes : IsSuccess(Final(calls, <<r, i, <<>>>>))})

C17_Witness ==
    /\ written[1] # <<>>
    /\ PendingChecks(1) = {}
    /\ Len(settleOrder[1]) >= 2
    /\ \E i, j \in Indexes : i < j /\ Requests(<<1, i>>) # {} /\ Requests(<<1, j>>) # {}

\* C18: in watch mode the tick of the timer starts the next run whether the
\* run before it is still Running or has Completed: while a run remains to
\* be started and the one before it has been started, the tick can fire.
C18_TickStartsRun ==
    \A r \in Runs \ {1} :
        phase[r] = "Idle" /\ phase[r - 1] \in {"Running", "Completed"} => ENABLED OnInterval

C18_Witness ==
    /\ phase[1] = "Running"
    /\ phase[2] = "Running"
    /\ \E i \in Indexes : ~Settled(calls, <<1, i>>)
    /\ \E i \in Indexes : Started(calls, <<2, i>>)

\* C19: the runs share the one limiter: the operations holding a slot, over
\* all runs together, are never more than the cap; an operation waits only
\* while the cap is reached; the queue holds the operations of an earlier
\* run before those of a later run, and no operation of a later run is
\* started while an operation of an earlier run is still queued.
C19_SharedLimiter ==
    /\ Cardinality(Holding) <= Concurrency
    /\ activeCount <= Concurrency
    /\ queue # <<>> => activeCount = Concurrency
    /\ \A a, b \in 1..Len(queue) : a < b =>
          \/ queue[a][1] < queue[b][1]
          \/ queue[a][1] = queue[b][1] /\ queue[a][2] < queue[b][2]
    /\ \A a \in 1..Len(queue) : \A op \in Ops :
          queue[a][1] < op[1] => ~Started(calls, op)

C19_Witness ==
    /\ phase[1] = "Running"
    /\ phase[2] = "Running"
    /\ activeCount = Concurrency
    /\ \E a, b \in 1..Len(queue) : a < b /\ queue[a][1] = 1 /\ queue[b][1] = 2

====
